---- MODULE Spec2Model ----
(***************************************************************************)
(* Model of the Twitch username checker (src/src/App.tsx): the validator,  *)
(* the history store kept in localStorage, and the TwitchChecker component *)
(* with its event handlers and its pending lookup requests.                *)
(*                                                                         *)
(* Strings are sequences of UTF-16 code units; a code unit outside         *)
(* printable ASCII is written by its number, "U+00A0".  A message is       *)
(* the sequence of its pieces of text.  A nullable value is a sequence of  *)
(* length at most one: Null is <<>>, Some(x) is <<x>>.                     *)
(***************************************************************************)
EXTENDS Naturals, Sequences, FiniteSets, TLC

VARIABLES
    mounted,    \* the mount effect (useEffect, [] deps) has run
    username,   \* useState: the text of the input
    result,     \* useState: CheckResult | null
    loading,    \* useState: boolean
    error,      \* useState: string | null
    history,    \* useState: the displayed history (a JS value)
    storage,    \* localStorage.getItem(HISTORY_KEY): string | null
    pending,    \* the suspended checkUsername calls: the identifier and the
                \* await each is at (fetch, or res.json())
    nChecks,    \* checkUsername invocations so far
    nFetch,     \* fetch() calls issued so far
    nSettled,   \* suspended checkUsername calls that have run to their end
                \* so far; the clock of new Date()
    streak      \* history store runs: the usernames appended in a row,
                \* pairwise different up to case, oldest first

vars == <<mounted, username, result, loading, error, history, storage,
          pending, nChecks, nFetch, nSettled, streak>>

----------------------------------------------------------------------------
(* Bounds and program constants *)

MaxChecks == 2

MAX_HISTORY == 5

MinNameLen == 4

MaxNameLen == 25

InputMaxLength == 25

Null == <<>>

Some(x) == <<x>>

----------------------------------------------------------------------------
(* Strings *)

UpperLetters ==
    <<"A","B","C","D","E","F","G","H","I","J","K","L","M",
      "N","O","P","Q","R","S","T","U","V","W","X","Y","Z">>

LowerLetters ==
    <<"a","b","c","d","e","f","g","h","i","j","k","l","m",
      "n","o","p","q","r","s","t","u","v","w","x","y","z">>

Digits == {"0","1","2","3","4","5","6","7","8","9"}

Range(s) == { s[i] : i \in DOMAIN s }

\* The character class [a-zA-Z0-9_] of the validator's regular expression.
WordChars == Range(UpperLetters) \cup Range(LowerLetters) \cup Digits \cup {"_"}

\* The characters String.prototype.trim removes: WhiteSpace and LineTerminator
\* of ECMAScript (TAB, LF, VT, FF, CR, SP, NBSP, the Unicode space separators,
\* LS, PS and the byte order mark).
WhiteSpace ==
    { "\t", "\n", "U+000B", "\f", "\r", " ", "U+00A0", "U+1680",
      "U+2000", "U+2001", "U+2002", "U+2003", "U+2004", "U+2005", "U+2006",
      "U+2007", "U+2008", "U+2009", "U+200A", "U+2028", "U+2029", "U+202F",
      "U+205F", "U+3000", "U+FEFF" }

UpperSet == Range(UpperLetters)

\* The lower-case letter of each upper-case one.
LowerOf ==
    [c \in UpperSet |->
        LowerLetters[CHOOSE k \in DOMAIN UpperLetters : UpperLetters[k] = c]]

\* A string is the sequence of its UTF-16 code units.  A code unit is written
\* as the character itself when it is printable ASCII (the grave accent
\* excepted) or one of TAB, LF, FF and CR, and as "U+" followed by its
\* hexadecimal digits otherwise.
AsciiChars ==
    <<" ", "!", "\"", "#", "$", "%", "&", "'", "(", ")", "*", "+", ",", "-", ".", "/",
      "0", "1", "2", "3", "4", "5", "6", "7", "8", "9", ":", ";", "<", "=", ">", "?",
      "@", "A", "B", "C", "D", "E", "F", "G", "H", "I", "J", "K", "L", "M", "N", "O",
      "P", "Q", "R", "S", "T", "U", "V", "W", "X", "Y", "Z", "[", "\\", "]", "^", "_",
      "U+0060", "a", "b", "c", "d", "e", "f", "g", "h", "i", "j", "k", "l", "m", "n", "o",
      "p", "q", "r", "s", "t", "u", "v", "w", "x", "y", "z", "{", "|", "}", "~">>

HexDigits == <<"0","1","2","3","4","5","6","7","8","9","A","B","C","D","E","F">>

HexVal ==
    [d \in Range(HexDigits) \cup {"a","b","c","d","e","f"} |->
        IF d \in Range(HexDigits)
        THEN (CHOOSE k \in DOMAIN HexDigits : HexDigits[k] = d) - 1
        ELSE 9 + (CHOOSE k \in 1..6 : LowerLetters[k] = d)]

RECURSIVE HexNumber(_)
HexNumber(h) ==
    IF Len(h) = 0 THEN 0
    ELSE (HexNumber(SubSeq(h, 1, Len(h) - 1)) * 16) + HexVal[SubSeq(h, Len(h), Len(h))]

Hex4(n) ==
    HexDigits[((n \div 4096) % 16) + 1] \o HexDigits[((n \div 256) % 16) + 1]
        \o HexDigits[((n \div 16) % 16) + 1] \o HexDigits[(n % 16) + 1]

\* The number of each code unit written as the character itself.
AsciiCode ==
    [c \in Range(AsciiChars) \cup {"\t", "\n", "\f", "\r"} |->
        IF c = "\t" THEN 9
        ELSE IF c = "\n" THEN 10
        ELSE IF c = "\f" THEN 12
        ELSE IF c = "\r" THEN 13
        ELSE 31 + (CHOOSE k \in DOMAIN AsciiChars : AsciiChars[k] = c)]

\* String.prototype.charCodeAt: the number of a code unit.
charCodeAt(c) ==
    IF Len(c) > 1 THEN HexNumber(SubSeq(c, 3, Len(c))) ELSE AsciiCode[c]

\* String.fromCharCode: the code unit of a number below 65536.
fromCharCode(n) ==
    IF n = 9 THEN "\t"
    ELSE IF n = 10 THEN "\n"
    ELSE IF n = 12 THEN "\f"
    ELSE IF n = 13 THEN "\r"
    ELSE IF n \in 32..126 THEN AsciiChars[n - 31]
    ELSE "U+" \o Hex4(n)

\* The code points of a sequence of code unit numbers: a high surrogate
\* followed by a low one is one code point, any other unit is its own.
RECURSIVE CodePoints(_)
CodePoints(u) ==
    IF u = <<>> THEN <<>>
    ELSE IF Len(u) >= 2 /\ u[1] \in \hD800..\hDBFF /\ u[2] \in \hDC00..\hDFFF
    THEN <<65536 + ((u[1] - \hD800) * 1024) + (u[2] - \hDC00)>>
             \o CodePoints(SubSeq(u, 3, Len(u)))
    ELSE <<u[1]>> \o CodePoints(Tail(u))

\* The code units of a sequence of code points.
RECURSIVE CodeUnits(_)
CodeUnits(p) ==
    IF p = <<>> THEN <<>>
    ELSE IF p[1] > 65535
    THEN <<fromCharCode(\hD800 + ((p[1] - 65536) \div 1024)),
           fromCharCode(\hDC00 + ((p[1] - 65536) % 1024))>> \o CodeUnits(Tail(p))
    ELSE <<fromCharCode(p[1])>> \o CodeUnits(Tail(p))

\* The simple lower-case mappings of the Unicode Character Database (version
\* 17.0, that of the runtime), as runs <<first, last, step, image of first>> in
\* ascending order: the code points first, first + step, ..., last map to the
\* image of first, that image + step, ...
LowerRuns ==
    <<
      <<\h0041, \h005A, 1, \h0061>>, <<\h00C0, \h00D6, 1, \h00E0>>, <<\h00D8, \h00DE, 1, \h00F8>>,
      <<\h0100, \h012E, 2, \h0101>>, <<\h0132, \h0136, 2, \h0133>>, <<\h0139, \h0147, 2, \h013A>>,
      <<\h014A, \h0176, 2, \h014B>>, <<\h0178, \h0178, 1, \h00FF>>, <<\h0179, \h017D, 2, \h017A>>,
      <<\h0181, \h0181, 1, \h0253>>, <<\h0182, \h0184, 2, \h0183>>, <<\h0186, \h0186, 1, \h0254>>,
      <<\h0187, \h0187, 1, \h0188>>, <<\h0189, \h018A, 1, \h0256>>, <<\h018B, \h018B, 1, \h018C>>,
      <<\h018E, \h018E, 1, \h01DD>>, <<\h018F, \h018F, 1, \h0259>>, <<\h0190, \h0190, 1, \h025B>>,
      <<\h0191, \h0191, 1, \h0192>>, <<\h0193, \h0193, 1, \h0260>>, <<\h0194, \h0194, 1, \h0263>>,
      <<\h0196, \h0196, 1, \h0269>>, <<\h0197, \h0197, 1, \h0268>>, <<\h0198, \h0198, 1, \h0199>>,
      <<\h019C, \h019C, 1, \h026F>>, <<\h019D, \h019D, 1, \h0272>>, <<\h019F, \h019F, 1, \h0275>>,
      <<\h01A0, \h01A4, 2, \h01A1>>, <<\h01A6, \h01A6, 1, \h0280>>, <<\h01A7, \h01A7, 1, \h01A8>>,
      <<\h01A9, \h01A9, 1, \h0283>>, <<\h01AC, \h01AC, 1, \h01AD>>, <<\h01AE, \h01AE, 1, \h0288>>,
      <<\h01AF, \h01AF, 1, \h01B0>>, <<\h01B1, \h01B2, 1, \h028A>>, <<\h01B3, \h01B5, 2, \h01B4>>,
      <<\h01B7, \h01B7, 1, \h0292>>, <<\h01B8, \h01B8, 1, \h01B9>>, <<\h01BC, \h01BC, 1, \h01BD>>,
      <<\h01C4, \h01C4, 1, \h01C6>>, <<\h01C5, \h01C5, 1, \h01C6>>, <<\h01C7, \h01C7, 1, \h01C9>>,
      <<\h01C8, \h01C8, 1, \h01C9>>, <<\h01CA, \h01CA, 1, \h01CC>>, <<\h01CB, \h01DB, 2, \h01CC>>,
      <<\h01DE, \h01EE, 2, \h01DF>>, <<\h01F1, \h01F1, 1, \h01F3>>, <<\h01F2, \h01F4, 2, \h01F3>>,
      <<\h01F6, \h01F6, 1, \h0195>>, <<\h01F7, \h01F7, 1, \h01BF>>, <<\h01F8, \h021E, 2, \h01F9>>,
      <<\h0220, \h0220, 1, \h019E>>, <<\h0222, \h0232, 2, \h0223>>, <<\h023A, \h023A, 1, \h2C65>>,
      <<\h023B, \h023B, 1, \h023C>>, <<\h023D, \h023D, 1, \h019A>>, <<\h023E, \h023E, 1, \h2C66>>,
      <<\h0241, \h0241, 1, \h0242>>, <<\h0243, \h0243, 1, \h0180>>, <<\h0244, \h0244, 1, \h0289>>,
      <<\h0245, \h0245, 1, \h028C>>, <<\h0246, \h024E, 2, \h0247>>, <<\h0370, \h0372, 2, \h0371>>,
      <<\h0376, \h0376, 1, \h0377>>, <<\h037F, \h037F, 1, \h03F3>>, <<\h0386, \h0386, 1, \h03AC>>,
      <<\h0388, \h038A, 1, \h03AD>>, <<\h038C, \h038C, 1, \h03CC>>, <<\h038E, \h038F, 1, \h03CD>>,
      <<\h0391, \h03A1, 1, \h03B1>>, <<\h03A4, \h03AB, 1, \h03C4>>, <<\h03CF, \h03CF, 1, \h03D7>>,
      <<\h03D8, \h03EE, 2, \h03D9>>, <<\h03F4, \h03F4, 1, \h03B8>>, <<\h03F7, \h03F7, 1, \h03F8>>,
      <<\h03F9, \h03F9, 1, \h03F2>>, <<\h03FA, \h03FA, 1, \h03FB>>, <<\h03FD, \h03FF, 1, \h037B>>,
      <<\h0400, \h040F, 1, \h0450>>, <<\h0410, \h042F, 1, \h0430>>, <<\h0460, \h0480, 2, \h0461>>,
      <<\h048A, \h04BE, 2, \h048B>>, <<\h04C0, \h04C0, 1, \h04CF>>, <<\h04C1, \h04CD, 2, \h04C2>>,
      <<\h04D0, \h052E, 2, \h04D1>>, <<\h0531, \h0556, 1, \h0561>>, <<\h10A0, \h10C5, 1, \h2D00>>,
      <<\h10C7, \h10C7, 1, \h2D27>>, <<\h10CD, \h10CD, 1, \h2D2D>>, <<\h13A0, \h13EF, 1, \hAB70>>,
      <<\h13F0, \h13F5, 1, \h13F8>>, <<\h1C89, \h1C89, 1, \h1C8A>>, <<\h1C90, \h1CBA, 1, \h10D0>>,
      <<\h1CBD, \h1CBF, 1, \h10FD>>, <<\h1E00, \h1E94, 2, \h1E01>>, <<\h1E9E, \h1E9E, 1, \h00DF>>,
      <<\h1EA0, \h1EFE, 2, \h1EA1>>, <<\h1F08, \h1F0F, 1, \h1F00>>, <<\h1F18, \h1F1D, 1, \h1F10>>,
      <<\h1F28, \h1F2F, 1, \h1F20>>, <<\h1F38, \h1F3F, 1, \h1F30>>, <<\h1F48, \h1F4D, 1, \h1F40>>,
      <<\h1F59, \h1F5F, 2, \h1F51>>, <<\h1F68, \h1F6F, 1, \h1F60>>, <<\h1F88, \h1F8F, 1, \h1F80>>,
      <<\h1F98, \h1F9F, 1, \h1F90>>, <<\h1FA8, \h1FAF, 1, \h1FA0>>, <<\h1FB8, \h1FB9, 1, \h1FB0>>,
      <<\h1FBA, \h1FBB, 1, \h1F70>>, <<\h1FBC, \h1FBC, 1, \h1FB3>>, <<\h1FC8, \h1FCB, 1, \h1F72>>,
      <<\h1FCC, \h1FCC, 1, \h1FC3>>, <<\h1FD8, \h1FD9, 1, \h1FD0>>, <<\h1FDA, \h1FDB, 1, \h1F76>>,
      <<\h1FE8, \h1FE9, 1, \h1FE0>>, <<\h1FEA, \h1FEB, 1, \h1F7A>>, <<\h1FEC, \h1FEC, 1, \h1FE5>>,
      <<\h1FF8, \h1FF9, 1, \h1F78>>, <<\h1FFA, \h1FFB, 1, \h1F7C>>, <<\h1FFC, \h1FFC, 1, \h1FF3>>,
      <<\h2126, \h2126, 1, \h03C9>>, <<\h212A, \h212A, 1, \h006B>>, <<\h212B, \h212B, 1, \h00E5>>,
      <<\h2132, \h2132, 1, \h214E>>, <<\h2160, \h216F, 1, \h2170>>, <<\h2183, \h2183, 1, \h2184>>,
      <<\h24B6, \h24CF, 1, \h24D0>>, <<\h2C00, \h2C2F, 1, \h2C30>>, <<\h2C60, \h2C60, 1, \h2C61>>,
      <<\h2C62, \h2C62, 1, \h026B>>, <<\h2C63, \h2C63, 1, \h1D7D>>, <<\h2C64, \h2C64, 1, \h027D>>,
      <<\h2C67, \h2C6B, 2, \h2C68>>, <<\h2C6D, \h2C6D, 1, \h0251>>, <<\h2C6E, \h2C6E, 1, \h0271>>,
      <<\h2C6F, \h2C6F, 1, \h0250>>, <<\h2C70, \h2C70, 1, \h0252>>, <<\h2C72, \h2C72, 1, \h2C73>>,
      <<\h2C75, \h2C75, 1, \h2C76>>, <<\h2C7E, \h2C7F, 1, \h023F>>, <<\h2C80, \h2CE2, 2, \h2C81>>,
      <<\h2CEB, \h2CED, 2, \h2CEC>>, <<\h2CF2, \h2CF2, 1, \h2CF3>>, <<\hA640, \hA66C, 2, \hA641>>,
      <<\hA680, \hA69A, 2, \hA681>>, <<\hA722, \hA72E, 2, \hA723>>, <<\hA732, \hA76E, 2, \hA733>>,
      <<\hA779, \hA77B, 2, \hA77A>>, <<\hA77D, \hA77D, 1, \h1D79>>, <<\hA77E, \hA786, 2, \hA77F>>,
      <<\hA78B, \hA78B, 1, \hA78C>>, <<\hA78D, \hA78D, 1, \h0265>>, <<\hA790, \hA792, 2, \hA791>>,
      <<\hA796, \hA7A8, 2, \hA797>>, <<\hA7AA, \hA7AA, 1, \h0266>>, <<\hA7AB, \hA7AB, 1, \h025C>>,
      <<\hA7AC, \hA7AC, 1, \h0261>>, <<\hA7AD, \hA7AD, 1, \h026C>>, <<\hA7AE, \hA7AE, 1, \h026A>>,
      <<\hA7B0, \hA7B0, 1, \h029E>>, <<\hA7B1, \hA7B1, 1, \h0287>>, <<\hA7B2, \hA7B2, 1, \h029D>>,
      <<\hA7B3, \hA7B3, 1, \hAB53>>, <<\hA7B4, \hA7C2, 2, \hA7B5>>, <<\hA7C4, \hA7C4, 1, \hA794>>,
      <<\hA7C5, \hA7C5, 1, \h0282>>, <<\hA7C6, \hA7C6, 1, \h1D8E>>, <<\hA7C7, \hA7C9, 2, \hA7C8>>,
      <<\hA7CB, \hA7CB, 1, \h0264>>, <<\hA7CC, \hA7DA, 2, \hA7CD>>, <<\hA7DC, \hA7DC, 1, \h019B>>,
      <<\hA7F5, \hA7F5, 1, \hA7F6>>, <<\hFF21, \hFF3A, 1, \hFF41>>, <<\h10400, \h10427, 1, \h10428>>,
      <<\h104B0, \h104D3, 1, \h104D8>>, <<\h10570, \h1057A, 1, \h10597>>, <<\h1057C, \h1058A, 1, \h105A3>>,
      <<\h1058C, \h10592, 1, \h105B3>>, <<\h10594, \h10595, 1, \h105BB>>, <<\h10C80, \h10CB2, 1, \h10CC0>>,
      <<\h10D50, \h10D65, 1, \h10D70>>, <<\h118A0, \h118BF, 1, \h118C0>>, <<\h16E40, \h16E5F, 1, \h16E60>>,
      <<\h16EA0, \h16EB8, 1, \h16EBB>>, <<\h1E900, \h1E921, 1, \h1E922>>
    >>

\* The code points with the property Cased and without Case_Ignorable, as
\* ranges <<first, last>> in ascending order.
CasedRanges ==
    <<
      <<\h0041, \h005A>>, <<\h0061, \h007A>>, <<\h00AA, \h00AA>>, <<\h00B5, \h00B5>>, <<\h00BA, \h00BA>>,
      <<\h00C0, \h00D6>>, <<\h00D8, \h00F6>>, <<\h00F8, \h01BA>>, <<\h01BC, \h01BF>>, <<\h01C4, \h0293>>,
      <<\h0296, \h02AF>>, <<\h0370, \h0373>>, <<\h0376, \h0377>>, <<\h037B, \h037D>>, <<\h037F, \h037F>>,
      <<\h0386, \h0386>>, <<\h0388, \h038A>>, <<\h038C, \h038C>>, <<\h038E, \h03A1>>, <<\h03A3, \h03F5>>,
      <<\h03F7, \h0481>>, <<\h048A, \h052F>>, <<\h0531, \h0556>>, <<\h0560, \h0588>>, <<\h10A0, \h10C5>>,
      <<\h10C7, \h10C7>>, <<\h10CD, \h10CD>>, <<\h10D0, \h10FA>>, <<\h10FD, \h10FF>>, <<\h13A0, \h13F5>>,
      <<\h13F8, \h13FD>>, <<\h1C80, \h1C8A>>, <<\h1C90, \h1CBA>>, <<\h1CBD, \h1CBF>>, <<\h1D00, \h1D2B>>,
      <<\h1D6B, \h1D77>>, <<\h1D79, \h1D9A>>, <<\h1E00, \h1F15>>, <<\h1F18, \h1F1D>>, <<\h1F20, \h1F45>>,
      <<\h1F48, \h1F4D>>, <<\h1F50, \h1F57>>, <<\h1F59, \h1F59>>, <<\h1F5B, \h1F5B>>, <<\h1F5D, \h1F5D>>,
      <<\h1F5F, \h1F7D>>, <<\h1F80, \h1FB4>>, <<\h1FB6, \h1FBC>>, <<\h1FBE, \h1FBE>>, <<\h1FC2, \h1FC4>>,
      <<\h1FC6, \h1FCC>>, <<\h1FD0, \h1FD3>>, <<\h1FD6, \h1FDB>>, <<\h1FE0, \h1FEC>>, <<\h1FF2, \h1FF4>>,
      <<\h1FF6, \h1FFC>>, <<\h2102, \h2102>>, <<\h2107, \h2107>>, <<\h210A, \h2113>>, <<\h2115, \h2115>>,
      <<\h2119, \h211D>>, <<\h2124, \h2124>>, <<\h2126, \h2126>>, <<\h2128, \h2128>>, <<\h212A, \h212D>>,
      <<\h212F, \h2134>>, <<\h2139, \h2139>>, <<\h213C, \h213F>>, <<\h2145, \h2149>>, <<\h214E, \h214E>>,
      <<\h2160, \h217F>>, <<\h2183, \h2184>>, <<\h24B6, \h24E9>>, <<\h2C00, \h2C7B>>, <<\h2C7E, \h2CE4>>,
      <<\h2CEB, \h2CEE>>, <<\h2CF2, \h2CF3>>, <<\h2D00, \h2D25>>, <<\h2D27, \h2D27>>, <<\h2D2D, \h2D2D>>,
      <<\hA640, \hA66D>>, <<\hA680, \hA69B>>, <<\hA722, \hA76F>>, <<\hA771, \hA787>>, <<\hA78B, \hA78E>>,
      <<\hA790, \hA7DC>>, <<\hA7F5, \hA7F6>>, <<\hA7FA, \hA7FA>>, <<\hAB30, \hAB5A>>, <<\hAB60, \hAB68>>,
      <<\hAB70, \hABBF>>, <<\hFB00, \hFB06>>, <<\hFB13, \hFB17>>, <<\hFF21, \hFF3A>>, <<\hFF41, \hFF5A>>,
      <<\h10400, \h1044F>>, <<\h104B0, \h104D3>>, <<\h104D8, \h104FB>>, <<\h10570, \h1057A>>, <<\h1057C, \h1058A>>,
      <<\h1058C, \h10592>>, <<\h10594, \h10595>>, <<\h10597, \h105A1>>, <<\h105A3, \h105B1>>, <<\h105B3, \h105B9>>,
      <<\h105BB, \h105BC>>, <<\h10C80, \h10CB2>>, <<\h10CC0, \h10CF2>>, <<\h10D50, \h10D65>>, <<\h10D70, \h10D85>>,
      <<\h118A0, \h118DF>>, <<\h16E40, \h16E7F>>, <<\h16EA0, \h16EB8>>, <<\h16EBB, \h16ED3>>, <<\h1D400, \h1D454>>,
      <<\h1D456, \h1D49C>>, <<\h1D49E, \h1D49F>>, <<\h1D4A2, \h1D4A2>>, <<\h1D4A5, \h1D4A6>>, <<\h1D4A9, \h1D4AC>>,
      <<\h1D4AE, \h1D4B9>>, <<\h1D4BB, \h1D4BB>>, <<\h1D4BD, \h1D4C3>>, <<\h1D4C5, \h1D505>>, <<\h1D507, \h1D50A>>,
      <<\h1D50D, \h1D514>>, <<\h1D516, \h1D51C>>, <<\h1D51E, \h1D539>>, <<\h1D53B, \h1D53E>>, <<\h1D540, \h1D544>>,
      <<\h1D546, \h1D546>>, <<\h1D54A, \h1D550>>, <<\h1D552, \h1D6A5>>, <<\h1D6A8, \h1D6C0>>, <<\h1D6C2, \h1D6DA>>,
      <<\h1D6DC, \h1D6FA>>, <<\h1D6FC, \h1D714>>, <<\h1D716, \h1D734>>, <<\h1D736, \h1D74E>>, <<\h1D750, \h1D76E>>,
      <<\h1D770, \h1D788>>, <<\h1D78A, \h1D7A8>>, <<\h1D7AA, \h1D7C2>>, <<\h1D7C4, \h1D7CB>>, <<\h1DF00, \h1DF09>>,
      <<\h1DF0B, \h1DF1E>>, <<\h1DF25, \h1DF2A>>, <<\h1E900, \h1E943>>, <<\h1F130, \h1F149>>, <<\h1F150, \h1F169>>,
      <<\h1F170, \h1F189>>
    >>

\* The code points with the property Case_Ignorable, as ranges <<first, last>>
\* in ascending order.
IgnorableRanges ==
    <<
      <<\h0027, \h0027>>, <<\h002E, \h002E>>, <<\h003A, \h003A>>, <<\h005E, \h005E>>, <<\h0060, \h0060>>,
      <<\h00A8, \h00A8>>, <<\h00AD, \h00AD>>, <<\h00AF, \h00AF>>, <<\h00B4, \h00B4>>, <<\h00B7, \h00B8>>,
      <<\h02B0, \h036F>>, <<\h0374, \h0375>>, <<\h037A, \h037A>>, <<\h0384, \h0385>>, <<\h0387, \h0387>>,
      <<\h0483, \h0489>>, <<\h0559, \h0559>>, <<\h055F, \h055F>>, <<\h0591, \h05BD>>, <<\h05BF, \h05BF>>,
      <<\h05C1, \h05C2>>, <<\h05C4, \h05C5>>, <<\h05C7, \h05C7>>, <<\h05F4, \h05F4>>, <<\h0600, \h0605>>,
      <<\h0610, \h061A>>, <<\h061C, \h061C>>, <<\h0640, \h0640>>, <<\h064B, \h065F>>, <<\h0670, \h0670>>,
      <<\h06D6, \h06DD>>, <<\h06DF, \h06E8>>, <<\h06EA, \h06ED>>, <<\h070F, \h070F>>, <<\h0711, \h0711>>,
      <<\h0730, \h074A>>, <<\h07A6, \h07B0>>, <<\h07EB, \h07F5>>, <<\h07FA, \h07FA>>, <<\h07FD, \h07FD>>,
      <<\h0816, \h082D>>, <<\h0859, \h085B>>, <<\h0888, \h0888>>, <<\h0890, \h0891>>, <<\h0897, \h089F>>,
      <<\h08C9, \h0902>>, <<\h093A, \h093A>>, <<\h093C, \h093C>>, <<\h0941, \h0948>>, <<\h094D, \h094D>>,
      <<\h0951, \h0957>>, <<\h0962, \h0963>>, <<\h0971, \h0971>>, <<\h0981, \h0981>>, <<\h09BC, \h09BC>>,
      <<\h09C1, \h09C4>>, <<\h09CD, \h09CD>>, <<\h09E2, \h09E3>>, <<\h09FE, \h09FE>>, <<\h0A01, \h0A02>>,
      <<\h0A3C, \h0A3C>>, <<\h0A41, \h0A42>>, <<\h0A47, \h0A48>>, <<\h0A4B, \h0A4D>>, <<\h0A51, \h0A51>>,
      <<\h0A70, \h0A71>>, <<\h0A75, \h0A75>>, <<\h0A81, \h0A82>>, <<\h0ABC, \h0ABC>>, <<\h0AC1, \h0AC5>>,
      <<\h0AC7, \h0AC8>>, <<\h0ACD, \h0ACD>>, <<\h0AE2, \h0AE3>>, <<\h0AFA, \h0AFF>>, <<\h0B01, \h0B01>>,
      <<\h0B3C, \h0B3C>>, <<\h0B3F, \h0B3F>>, <<\h0B41, \h0B44>>, <<\h0B4D, \h0B4D>>, <<\h0B55, \h0B56>>,
      <<\h0B62, \h0B63>>, <<\h0B82, \h0B82>>, <<\h0BC0, \h0BC0>>, <<\h0BCD, \h0BCD>>, <<\h0C00, \h0C00>>,
      <<\h0C04, \h0C04>>, <<\h0C3C, \h0C3C>>, <<\h0C3E, \h0C40>>, <<\h0C46, \h0C48>>, <<\h0C4A, \h0C4D>>,
      <<\h0C55, \h0C56>>, <<\h0C62, \h0C63>>, <<\h0C81, \h0C81>>, <<\h0CBC, \h0CBC>>, <<\h0CBF, \h0CBF>>,
      <<\h0CC6, \h0CC6>>, <<\h0CCC, \h0CCD>>, <<\h0CE2, \h0CE3>>, <<\h0D00, \h0D01>>, <<\h0D3B, \h0D3C>>,
      <<\h0D41, \h0D44>>, <<\h0D4D, \h0D4D>>, <<\h0D62, \h0D63>>, <<\h0D81, \h0D81>>, <<\h0DCA, \h0DCA>>,
      <<\h0DD2, \h0DD4>>, <<\h0DD6, \h0DD6>>, <<\h0E31, \h0E31>>, <<\h0E34, \h0E3A>>, <<\h0E46, \h0E4E>>,
      <<\h0EB1, \h0EB1>>, <<\h0EB4, \h0EBC>>, <<\h0EC6, \h0EC6>>, <<\h0EC8, \h0ECE>>, <<\h0F18, \h0F19>>,
      <<\h0F35, \h0F35>>, <<\h0F37, \h0F37>>, <<\h0F39, \h0F39>>, <<\h0F71, \h0F7E>>, <<\h0F80, \h0F84>>,
      <<\h0F86, \h0F87>>, <<\h0F8D, \h0F97>>, <<\h0F99, \h0FBC>>, <<\h0FC6, \h0FC6>>, <<\h102D, \h1030>>,
      <<\h1032, \h1037>>, <<\h1039, \h103A>>, <<\h103D, \h103E>>, <<\h1058, \h1059>>, <<\h105E, \h1060>>,
      <<\h1071, \h1074>>, <<\h1082, \h1082>>, <<\h1085, \h1086>>, <<\h108D, \h108D>>, <<\h109D, \h109D>>,
      <<\h10FC, \h10FC>>, <<\h135D, \h135F>>, <<\h1712, \h1714>>, <<\h1732, \h1733>>, <<\h1752, \h1753>>,
      <<\h1772, \h1773>>, <<\h17B4, \h17B5>>, <<\h17B7, \h17BD>>, <<\h17C6, \h17C6>>, <<\h17C9, \h17D3>>,
      <<\h17D7, \h17D7>>, <<\h17DD, \h17DD>>, <<\h180B, \h180F>>, <<\h1843, \h1843>>, <<\h1885, \h1886>>,
      <<\h18A9, \h18A9>>, <<\h1920, \h1922>>, <<\h1927, \h1928>>, <<\h1932, \h1932>>, <<\h1939, \h193B>>,
      <<\h1A17, \h1A18>>, <<\h1A1B, \h1A1B>>, <<\h1A56, \h1A56>>, <<\h1A58, \h1A5E>>, <<\h1A60, \h1A60>>,
      <<\h1A62, \h1A62>>, <<\h1A65, \h1A6C>>, <<\h1A73, \h1A7C>>, <<\h1A7F, \h1A7F>>, <<\h1AA7, \h1AA7>>,
      <<\h1AB0, \h1ADD>>, <<\h1AE0, \h1AEB>>, <<\h1B00, \h1B03>>, <<\h1B34, \h1B34>>, <<\h1B36, \h1B3A>>,
      <<\h1B3C, \h1B3C>>, <<\h1B42, \h1B42>>, <<\h1B6B, \h1B73>>, <<\h1B80, \h1B81>>, <<\h1BA2, \h1BA5>>,
      <<\h1BA8, \h1BA9>>, <<\h1BAB, \h1BAD>>, <<\h1BE6, \h1BE6>>, <<\h1BE8, \h1BE9>>, <<\h1BED, \h1BED>>,
      <<\h1BEF, \h1BF1>>, <<\h1C2C, \h1C33>>, <<\h1C36, \h1C37>>, <<\h1C78, \h1C7D>>, <<\h1CD0, \h1CD2>>,
      <<\h1CD4, \h1CE0>>, <<\h1CE2, \h1CE8>>, <<\h1CED, \h1CED>>, <<\h1CF4, \h1CF4>>, <<\h1CF8, \h1CF9>>,
      <<\h1D2C, \h1D6A>>, <<\h1D78, \h1D78>>, <<\h1D9B, \h1DFF>>, <<\h1FBD, \h1FBD>>, <<\h1FBF, \h1FC1>>,
      <<\h1FCD, \h1FCF>>, <<\h1FDD, \h1FDF>>, <<\h1FED, \h1FEF>>, <<\h1FFD, \h1FFE>>, <<\h200B, \h200F>>,
      <<\h2018, \h2019>>, <<\h2024, \h2024>>, <<\h2027, \h2027>>, <<\h202A, \h202E>>, <<\h2060, \h2064>>,
      <<\h2066, \h206F>>, <<\h2071, \h2071>>, <<\h207F, \h207F>>, <<\h2090, \h209C>>, <<\h20D0, \h20F0>>,
      <<\h2C7C, \h2C7D>>, <<\h2CEF, \h2CF1>>, <<\h2D6F, \h2D6F>>, <<\h2D7F, \h2D7F>>, <<\h2DE0, \h2DFF>>,
      <<\h2E2F, \h2E2F>>, <<\h3005, \h3005>>, <<\h302A, \h302D>>, <<\h3031, \h3035>>, <<\h303B, \h303B>>,
      <<\h3099, \h309E>>, <<\h30FC, \h30FE>>, <<\hA015, \hA015>>, <<\hA4F8, \hA4FD>>, <<\hA60C, \hA60C>>,
      <<\hA66F, \hA672>>, <<\hA674, \hA67D>>, <<\hA67F, \hA67F>>, <<\hA69C, \hA69F>>, <<\hA6F0, \hA6F1>>,
      <<\hA700, \hA721>>, <<\hA770, \hA770>>, <<\hA788, \hA78A>>, <<\hA7F1, \hA7F4>>, <<\hA7F8, \hA7F9>>,
      <<\hA802, \hA802>>, <<\hA806, \hA806>>, <<\hA80B, \hA80B>>, <<\hA825, \hA826>>, <<\hA82C, \hA82C>>,
      <<\hA8C4, \hA8C5>>, <<\hA8E0, \hA8F1>>, <<\hA8FF, \hA8FF>>, <<\hA926, \hA92D>>, <<\hA947, \hA951>>,
      <<\hA980, \hA982>>, <<\hA9B3, \hA9B3>>, <<\hA9B6, \hA9B9>>, <<\hA9BC, \hA9BD>>, <<\hA9CF, \hA9CF>>,
      <<\hA9E5, \hA9E6>>, <<\hAA29, \hAA2E>>, <<\hAA31, \hAA32>>, <<\hAA35, \hAA36>>, <<\hAA43, \hAA43>>,
      <<\hAA4C, \hAA4C>>, <<\hAA70, \hAA70>>, <<\hAA7C, \hAA7C>>, <<\hAAB0, \hAAB0>>, <<\hAAB2, \hAAB4>>,
      <<\hAAB7, \hAAB8>>, <<\hAABE, \hAABF>>, <<\hAAC1, \hAAC1>>, <<\hAADD, \hAADD>>, <<\hAAEC, \hAAED>>,
      <<\hAAF3, \hAAF4>>, <<\hAAF6, \hAAF6>>, <<\hAB5B, \hAB5F>>, <<\hAB69, \hAB6B>>, <<\hABE5, \hABE5>>,
      <<\hABE8, \hABE8>>, <<\hABED, \hABED>>, <<\hFB1E, \hFB1E>>, <<\hFBB2, \hFBC2>>, <<\hFE00, \hFE0F>>,
      <<\hFE13, \hFE13>>, <<\hFE20, \hFE2F>>, <<\hFE52, \hFE52>>, <<\hFE55, \hFE55>>, <<\hFEFF, \hFEFF>>,
      <<\hFF07, \hFF07>>, <<\hFF0E, \hFF0E>>, <<\hFF1A, \hFF1A>>, <<\hFF3E, \hFF3E>>, <<\hFF40, \hFF40>>,
      <<\hFF70, \hFF70>>, <<\hFF9E, \hFF9F>>, <<\hFFE3, \hFFE3>>, <<\hFFF9, \hFFFB>>, <<\h101FD, \h101FD>>,
      <<\h102E0, \h102E0>>, <<\h10376, \h1037A>>, <<\h10780, \h10785>>, <<\h10787, \h107B0>>, <<\h107B2, \h107BA>>,
      <<\h10A01, \h10A03>>, <<\h10A05, \h10A06>>, <<\h10A0C, \h10A0F>>, <<\h10A38, \h10A3A>>, <<\h10A3F, \h10A3F>>,
      <<\h10AE5, \h10AE6>>, <<\h10D24, \h10D27>>, <<\h10D4E, \h10D4E>>, <<\h10D69, \h10D6D>>, <<\h10D6F, \h10D6F>>,
      <<\h10EAB, \h10EAC>>, <<\h10EC5, \h10EC5>>, <<\h10EFA, \h10EFF>>, <<\h10F46, \h10F50>>, <<\h10F82, \h10F85>>,
      <<\h11001, \h11001>>, <<\h11038, \h11046>>, <<\h11070, \h11070>>, <<\h11073, \h11074>>, <<\h1107F, \h11081>>,
      <<\h110B3, \h110B6>>, <<\h110B9, \h110BA>>, <<\h110BD, \h110BD>>, <<\h110C2, \h110C2>>, <<\h110CD, \h110CD>>,
      <<\h11100, \h11102>>, <<\h11127, \h1112B>>, <<\h1112D, \h11134>>, <<\h11173, \h11173>>, <<\h11180, \h11181>>,
      <<\h111B6, \h111BE>>, <<\h111C9, \h111CC>>, <<\h111CF, \h111CF>>, <<\h1122F, \h11231>>, <<\h11234, \h11234>>,
      <<\h11236, \h11237>>, <<\h1123E, \h1123E>>, <<\h11241, \h11241>>, <<\h112DF, \h112DF>>, <<\h112E3, \h112EA>>,
      <<\h11300, \h11301>>, <<\h1133B, \h1133C>>, <<\h11340, \h11340>>, <<\h11366, \h1136C>>, <<\h11370, \h11374>>,
      <<\h113BB, \h113C0>>, <<\h113CE, \h113CE>>, <<\h113D0, \h113D0>>, <<\h113D2, \h113D2>>, <<\h113E1, \h113E2>>,
      <<\h11438, \h1143F>>, <<\h11442, \h11444>>, <<\h11446, \h11446>>, <<\h1145E, \h1145E>>, <<\h114B3, \h114B8>>,
      <<\h114BA, \h114BA>>, <<\h114BF, \h114C0>>, <<\h114C2, \h114C3>>, <<\h115B2, \h115B5>>, <<\h115BC, \h115BD>>,
      <<\h115BF, \h115C0>>, <<\h115DC, \h115DD>>, <<\h11633, \h1163A>>, <<\h1163D, \h1163D>>, <<\h1163F, \h11640>>,
      <<\h116AB, \h116AB>>, <<\h116AD, \h116AD>>, <<\h116B0, \h116B5>>, <<\h116B7, \h116B7>>, <<\h1171D, \h1171D>>,
      <<\h1171F, \h1171F>>, <<\h11722, \h11725>>, <<\h11727, \h1172B>>, <<\h1182F, \h11837>>, <<\h11839, \h1183A>>,
      <<\h1193B, \h1193C>>, <<\h1193E, \h1193E>>, <<\h11943, \h11943>>, <<\h119D4, \h119D7>>, <<\h119DA, \h119DB>>,
      <<\h119E0, \h119E0>>, <<\h11A01, \h11A0A>>, <<\h11A33, \h11A38>>, <<\h11A3B, \h11A3E>>, <<\h11A47, \h11A47>>,
      <<\h11A51, \h11A56>>, <<\h11A59, \h11A5B>>, <<\h11A8A, \h11A96>>, <<\h11A98, \h11A99>>, <<\h11B60, \h11B60>>,
      <<\h11B62, \h11B64>>, <<\h11B66, \h11B66>>, <<\h11C30, \h11C36>>, <<\h11C38, \h11C3D>>, <<\h11C3F, \h11C3F>>,
      <<\h11C92, \h11CA7>>, <<\h11CAA, \h11CB0>>, <<\h11CB2, \h11CB3>>, <<\h11CB5, \h11CB6>>, <<\h11D31, \h11D36>>,
      <<\h11D3A, \h11D3A>>, <<\h11D3C, \h11D3D>>, <<\h11D3F, \h11D45>>, <<\h11D47, \h11D47>>, <<\h11D90, \h11D91>>,
      <<\h11D95, \h11D95>>, <<\h11D97, \h11D97>>, <<\h11DD9, \h11DD9>>, <<\h11EF3, \h11EF4>>, <<\h11F00, \h11F01>>,
      <<\h11F36, \h11F3A>>, <<\h11F40, \h11F40>>, <<\h11F42, \h11F42>>, <<\h11F5A, \h11F5A>>, <<\h13430, \h13440>>,
      <<\h13447, \h13455>>, <<\h1611E, \h16129>>, <<\h1612D, \h1612F>>, <<\h16AF0, \h16AF4>>, <<\h16B30, \h16B36>>,
      <<\h16B40, \h16B43>>, <<\h16D40, \h16D42>>, <<\h16D6B, \h16D6C>>, <<\h16F4F, \h16F4F>>, <<\h16F8F, \h16F9F>>,
      <<\h16FE0, \h16FE1>>, <<\h16FE3, \h16FE4>>, <<\h16FF2, \h16FF3>>, <<\h1AFF0, \h1AFF3>>, <<\h1AFF5, \h1AFFB>>,
      <<\h1AFFD, \h1AFFE>>, <<\h1BC9D, \h1BC9E>>, <<\h1BCA0, \h1BCA3>>, <<\h1CF00, \h1CF2D>>, <<\h1CF30, \h1CF46>>,
      <<\h1D167, \h1D169>>, <<\h1D173, \h1D182>>, <<\h1D185, \h1D18B>>, <<\h1D1AA, \h1D1AD>>, <<\h1D242, \h1D244>>,
      <<\h1DA00, \h1DA36>>, <<\h1DA3B, \h1DA6C>>, <<\h1DA75, \h1DA75>>, <<\h1DA84, \h1DA84>>, <<\h1DA9B, \h1DA9F>>,
      <<\h1DAA1, \h1DAAF>>, <<\h1E000, \h1E006>>, <<\h1E008, \h1E018>>, <<\h1E01B, \h1E021>>, <<\h1E023, \h1E024>>,
      <<\h1E026, \h1E02A>>, <<\h1E030, \h1E06D>>, <<\h1E08F, \h1E08F>>, <<\h1E130, \h1E13D>>, <<\h1E2AE, \h1E2AE>>,
      <<\h1E2EC, \h1E2EF>>, <<\h1E4EB, \h1E4EF>>, <<\h1E5EE, \h1E5EF>>, <<\h1E6E3, \h1E6E3>>, <<\h1E6E6, \h1E6E6>>,
      <<\h1E6EE, \h1E6EF>>, <<\h1E6F5, \h1E6F5>>, <<\h1E6FF, \h1E6FF>>, <<\h1E8D0, \h1E8D6>>, <<\h1E944, \h1E94B>>,
      <<\h1F3FB, \h1F3FF>>, <<\hE0001, \hE0001>>, <<\hE0020, \hE007F>>, <<\hE0100, \hE01EF>>
    >>

\* The index in lo..hi of the last entry of the ascending table that starts at
\* or before n, and 0 when there is none.
RECURSIVE Find(_, _, _, _)
Find(table, n, lo, hi) ==
    IF lo > hi THEN 0
    ELSE LET mid == (lo + hi) \div 2 IN
         IF table[mid][1] <= n
         THEN LET above == Find(table, n, mid + 1, hi) IN
              IF above = 0 THEN mid ELSE above
         ELSE Find(table, n, lo, mid - 1)

\* n lies in a range of the table.
InTable(table, n) ==
    LET k == Find(table, n, 1, Len(table)) IN k > 0 /\ n <= table[k][2]

\* The lower-case code point of n by the simple mappings.
SimpleLower(n) ==
    IF n < 128 THEN (IF n \in 65..90 THEN n + 32 ELSE n)
    ELSE LET k == Find(LowerRuns, n, 1, Len(LowerRuns)) IN
         IF k > 0 /\ n <= LowerRuns[k][2] /\ ((n - LowerRuns[k][1]) % LowerRuns[k][3]) = 0
         THEN LowerRuns[k][4] + (n - LowerRuns[k][1])
         ELSE n

Cased(n) == InTable(CasedRanges, n)

CaseIgnorable(n) == InTable(IgnorableRanges, n)

\* A cased letter precedes position j + 1, case-ignorable code points skipped.
RECURSIVE CasedBefore(_, _)
CasedBefore(p, j) ==
    IF j < 1 THEN FALSE
    ELSE IF CaseIgnorable(p[j]) THEN CasedBefore(p, j - 1)
    ELSE Cased(p[j])

\* A cased letter follows position j - 1, case-ignorable code points skipped.
RECURSIVE CasedAfter(_, _)
CasedAfter(p, j) ==
    IF j > Len(p) THEN FALSE
    ELSE IF CaseIgnorable(p[j]) THEN CasedAfter(p, j + 1)
    ELSE Cased(p[j])

\* The condition Final_Sigma of the special casing rules at position i.
FinalSigma(p, i) == CasedBefore(p, i - 1) /\ ~CasedAfter(p, i + 1)

\* The lower-case text of the code point at position i: I WITH DOT ABOVE
\* becomes i and COMBINING DOT ABOVE, CAPITAL SIGMA becomes final or medial
\* small sigma by its context, any other code point its simple mapping.
LowerPoint(p, i) ==
    IF p[i] = \h0130 THEN <<\h0069, \h0307>>
    ELSE IF p[i] = \h03A3
    THEN (IF FinalSigma(p, i) THEN <<\h03C2>> ELSE <<\h03C3>>)
    ELSE <<SimpleLower(p[i])>>

RECURSIVE LowerFrom(_, _)
LowerFrom(p, i) ==
    IF i > Len(p) THEN <<>> ELSE LowerPoint(p, i) \o LowerFrom(p, i + 1)

\* toLowerCase of a text of ASCII characters: each of A-Z replaced.
RECURSIVE LowerAscii(_)
LowerAscii(s) ==
    IF s = <<>> THEN <<>>
    ELSE <<IF Head(s) \in UpperSet THEN LowerOf[Head(s)] ELSE Head(s)>>
             \o LowerAscii(Tail(s))

\* String.prototype.toLowerCase
toLowerCase(s) ==
    IF \A i \in DOMAIN s : Len(s[i]) = 1
    THEN LowerAscii(s)
    ELSE CodeUnits(LowerFrom(CodePoints([i \in DOMAIN s |-> charCodeAt(s[i])]), 1))

RECURSIVE TrimStart(_)
TrimStart(s) ==
    IF s # <<>> /\ Head(s) \in WhiteSpace THEN TrimStart(Tail(s)) ELSE s

RECURSIVE TrimEnd(_)
TrimEnd(s) ==
    IF s # <<>> /\ s[Len(s)] \in WhiteSpace
    THEN TrimEnd(SubSeq(s, 1, Len(s) - 1))
    ELSE s

\* String.prototype.trim
Trim(s) == TrimEnd(TrimStart(s))

Rep(c, n) == [i \in 1..n |-> c]

----------------------------------------------------------------------------
(* The validator *)

\* Faulty variant: the quantifier {4,} in place of {4,25}.
isValidUsername_NoUpperBound(name) ==
    /\ Len(name) >= MinNameLen
    /\ \A i \in DOMAIN name : name[i] \in WordChars

\* /^[a-zA-Z0-9_]{4,25}$/.test(name)
isValidUsername(name) ==
    /\ Len(name) >= MinNameLen
    /\ Len(name) <= MaxNameLen
    /\ \A i \in DOMAIN name : name[i] \in WordChars

----------------------------------------------------------------------------
(* JSON texts and the JS values they parse to *)

\* A JS value: an array of CheckResult objects, or a value of another shape.
JsArray(items) == [t |-> "array", items |-> items]

JsObject == [t |-> "object", items |-> <<>>]

JsNumber == [t |-> "number", items |-> <<>>]

IsArray(v) == v.t = "array"

\* A text: well-formed JSON of a value, or text JSON.parse rejects.
JSONstringify(v) == [syntax |-> "json", doc |-> v]

Garbage == [syntax |-> "bad", doc |-> JsObject]

\* JSON.parse: a SyntaxError, or the value
JSONparse(text) ==
    IF text.syntax = "json"
    THEN [threw |-> FALSE, value |-> text.doc]
    ELSE [threw |-> TRUE, value |-> JsObject]

\* An array's length; undefined (not > 0) for the other shapes of the model.
HasItems(v) == IsArray(v) /\ Len(v.items) > 0

----------------------------------------------------------------------------
(* The history store *)

\* loadHistory(): JSON.parse(getItem(KEY) ?? "[]"), [] when that throws
loadHistory(st) ==
    LET text   == IF st = Null THEN JSONstringify(JsArray(<<>>)) ELSE st[1]
        parsed == JSONparse(text)
    IN  IF parsed.threw THEN JsArray(<<>>) ELSE parsed.value

SameName(a, b) == toLowerCase(a) = toLowerCase(b)

\* Array.prototype.slice(0, n)
Slice(s, n) == SubSeq(s, 1, IF Len(s) < n THEN Len(s) ELSE n)

FilterMsg == <<"history.filter is not a function">>

\* Faulty variant: no slice(0, MAX_HISTORY).
saveToHistory_NoSlice(st, entry) ==
    LET h == loadHistory(st) IN
    IF ~IsArray(h)
    THEN [threw |-> TRUE, message |-> FilterMsg, storage |-> st, value |-> h]
    ELSE LET filtered == SelectSeq(h.items,
                             LAMBDA x : ~SameName(x.username, entry.username))
             updated  == <<entry>> \o filtered
         IN  [threw |-> FALSE, message |-> <<>>,
              storage |-> Some(JSONstringify(JsArray(updated))),
              value |-> JsArray(updated)]

\* Faulty variant: the filter compares usernames without toLowerCase.
saveToHistory_CaseSensitive(st, entry) ==
    LET h == loadHistory(st) IN
    IF ~IsArray(h)
    THEN [threw |-> TRUE, message |-> FilterMsg, storage |-> st, value |-> h]
    ELSE LET filtered == SelectSeq(h.items,
                             LAMBDA x : x.username # entry.username)
             updated  == Slice(<<entry>> \o filtered, MAX_HISTORY)
         IN  [threw |-> FALSE, message |-> <<>>,
              storage |-> Some(JSONstringify(JsArray(updated))),
              value |-> JsArray(updated)]

\* Faulty variant: [...filtered, entry] in place of [entry, ...filtered].
saveToHistory_Append(st, entry) ==
    LET h == loadHistory(st) IN
    IF ~IsArray(h)
    THEN [threw |-> TRUE, message |-> FilterMsg, storage |-> st, value |-> h]
    ELSE LET filtered == SelectSeq(h.items,
                             LAMBDA x : ~SameName(x.username, entry.username))
             updated  == Slice(filtered \o <<entry>>, MAX_HISTORY)
         IN  [threw |-> FALSE, message |-> <<>>,
              storage |-> Some(JSONstringify(JsArray(updated))),
              value |-> JsArray(updated)]

\* saveToHistory(entry): the value returned (or the TypeError thrown when the
\* loaded value has no filter method) and the storage it leaves.
saveToHistory(st, entry) ==
    LET h == loadHistory(st) IN
    IF ~IsArray(h)
    THEN [threw |-> TRUE, message |-> FilterMsg, storage |-> st, value |-> h]
    ELSE LET filtered == SelectSeq(h.items,
                             LAMBDA x : ~SameName(x.username, entry.username))
             updated  == Slice(<<entry>> \o filtered, MAX_HISTORY)
         IN  [threw |-> FALSE, message |-> <<>>,
              storage |-> Some(JSONstringify(JsArray(updated))),
              value |-> JsArray(updated)]

----------------------------------------------------------------------------
(* Messages and responses *)

ValidationMsg ==
    <<"Usernames must be 4", "U+2013",
      "25 characters: letters, numbers, and underscores only.">>

GenericMsg ==
    <<"Network error ", "U+2014", " check your connection and try again.">>

\* The message of the TypeError a fetch rejects with is the runtime's own.
FetchFailedMsgs == { <<"Failed to fetch">>, <<"fetch failed">> }

\* The message of the SyntaxError of res.json() depends on the body.
BadBodyMsgs ==
    { <<"Unexpected token '<', \"<html>\" is not valid JSON">>,
      <<"Unexpected end of JSON input">> }

\* `API error: ${res.status}`
ApiErrorMsg(status) == <<"API error: ", ToString(status)>>

\* What a fetch can settle with: a rejection (no response) with the message
\* of its TypeError, or a response with a status.
Rejected(msg) == [settled |-> "rejected", status |-> 0, message |-> msg]

Fulfilled(status) == [settled |-> "fulfilled", status |-> status, message |-> <<>>]

Responses ==
    { Rejected(m) : m \in FetchFailedMsgs }
        \cup { Fulfilled(200), Fulfilled(500), Fulfilled(404) }

\* What res.json() can settle with: {exists: true}, {exists: false}, or the
\* SyntaxError of a body that is not JSON.
ExistsBody(exists) == [parsed |-> TRUE, exists |-> exists, message |-> <<>>]

BadBody(msg) == [parsed |-> FALSE, exists |-> FALSE, message |-> msg]

Bodies ==
    { ExistsBody(TRUE), ExistsBody(FALSE) } \cup { BadBody(m) : m \in BadBodyMsgs }

\* Response.ok
ResOk(resp) == resp.status >= 200 /\ resp.status <= 299

\* What `await fetch(...)` and the res.ok test throw, if anything.
Thrown(resp) ==
    IF resp.settled = "rejected"
    THEN [threw |-> TRUE, isError |-> TRUE, message |-> resp.message]
    ELSE IF ~ResOk(resp)
    THEN [threw |-> TRUE, isError |-> TRUE, message |-> ApiErrorMsg(resp.status)]
    ELSE [threw |-> FALSE, isError |-> FALSE, message |-> <<>>]

\* What `await res.json()` throws, if anything.
BodyThrown(body) ==
    IF ~body.parsed
    THEN [threw |-> TRUE, isError |-> TRUE, message |-> body.message]
    ELSE [threw |-> FALSE, isError |-> FALSE, message |-> <<>>]

\* err instanceof Error ? err.message : "Network error ..."
CatchMsg(err) == IF err.isError THEN err.message ELSE GenericMsg

\* new Date().toISOString(), on the clock of finished lookups
Now == nSettled + 1

\* The CheckResult built from a successful response.
NewEntry(trimmed, body) ==
    [username |-> trimmed, available |-> ~body.exists, checkedAt |-> Now]

----------------------------------------------------------------------------
(* What is rendered *)

\* A string | null state is truthy when it is a non-empty string.
Truthy(msg) == msg # Null /\ msg[1] # <<>>

\* {error && <banner>}
ErrorShown == Truthy(error)

\* {result && !error && <banner>}
ResultShown == result # Null /\ ~Truthy(error)

\* disabled={loading || !username.trim()}
ButtonDisabled == loading \/ Trim(username) = <<>>

\* {history.length > 0 && <card with the clear button and the entries>}
HistoryShown == HasItems(history)

----------------------------------------------------------------------------
(* The component's handlers *)

\* The validation branch of checkUsername: setError(message); setResult(null); return
RejectInput ==
    /\ error' = Some(ValidationMsg)
    /\ result' = Null
    /\ UNCHANGED <<loading, pending, nFetch>>

\* Faulty variant: an entry of the history answers the check without a fetch.
BeginLookup_Cached(trimmed) ==
    IF HasItems(history)
       /\ \E i \in DOMAIN history.items : history.items[i].username = trimmed
    THEN /\ result' = Some(history.items[CHOOSE i \in DOMAIN history.items :
                                            history.items[i].username = trimmed])
         /\ error' = Null
         /\ UNCHANGED <<loading, pending, nFetch>>
    ELSE /\ loading' = TRUE
         /\ error' = Null
         /\ result' = Null
         /\ pending' = Append(pending, [name |-> trimmed, stage |-> "fetch"])
         /\ nFetch' = nFetch + 1

\* setLoading(true); setError(null); setResult(null); await fetch(...)
BeginLookup(trimmed) ==
    /\ loading' = TRUE
    /\ error' = Null
    /\ result' = Null
    /\ pending' = Append(pending, [name |-> trimmed, stage |-> "fetch"])
    /\ nFetch' = nFetch + 1

\* checkUsername, up to its return or its await; raw is nameOverride ?? username
checkUsername(raw) ==
    LET trimmed == Trim(raw) IN
    /\ mounted
    /\ nChecks < MaxChecks
    /\ nChecks' = nChecks + 1
    /\ IF trimmed = <<>>
       THEN UNCHANGED <<result, error, loading, pending, nFetch>>
       ELSE IF ~isValidUsername(trimmed)
       THEN RejectInput
       ELSE BeginLookup(trimmed)
    /\ UNCHANGED <<mounted, history, storage, nSettled, streak>>

\* useEffect(() => setHistory(loadHistory()), [])
Mount ==
    /\ ~mounted
    /\ mounted' = TRUE
    /\ history' = loadHistory(storage)
    /\ UNCHANGED <<username, result, loading, error, storage, pending,
                   nChecks, nFetch, nSettled, streak>>

\* onClick of the CHECK button, which is disabled while loading or on blank input
ClickCheck ==
    /\ ~ButtonDisabled
    /\ checkUsername(username)
    /\ UNCHANGED username

\* handleKeyDown with e.key === "Enter"
handleKeyDown ==
    /\ checkUsername(username)
    /\ UNCHANGED username

\* handleHistoryClick(h) for the i-th entry shown
handleHistoryClick(i) ==
    /\ HistoryShown
    /\ i \in DOMAIN history.items
    /\ username' = history.items[i].username
    /\ checkUsername(history.items[i].username)

\* Faulty variant: removeItem without setHistory([]).
clearHistory_StorageOnly ==
    /\ mounted
    /\ HistoryShown
    /\ storage' = Null
    /\ UNCHANGED <<mounted, username, result, loading, error, history, pending,
                   nChecks, nFetch, nSettled, streak>>

\* clearHistory: localStorage.removeItem(HISTORY_KEY); setHistory([])
clearHistory ==
    /\ mounted
    /\ HistoryShown
    /\ storage' = Null
    /\ history' = JsArray(<<>>)
    /\ UNCHANGED <<mounted, username, result, loading, error, pending,
                   nChecks, nFetch, nSettled, streak>>

\* Faulty variant: no finally block, loading stays as it was.
OnFailure_NoFinally(err) ==
    /\ error' = Some(CatchMsg(err))
    /\ UNCHANGED <<result, history, storage, loading>>

\* catch (err) { setError(...) } finally { setLoading(false) }
OnFailure(err) ==
    /\ error' = Some(CatchMsg(err))
    /\ loading' = FALSE
    /\ UNCHANGED <<result, history, storage>>

\* setResult(entry); setHistory(saveToHistory(entry)); finally setLoading(false).
\* A throw of saveToHistory is caught like any other.
OnSuccess(entry) ==
    LET saved == saveToHistory(storage, entry) IN
    /\ result' = Some(entry)
    /\ loading' = FALSE
    /\ IF saved.threw
       THEN /\ error' = Some(CatchMsg([isError |-> TRUE, message |-> saved.message]))
            /\ UNCHANGED <<history, storage>>
       ELSE /\ history' = saved.value
            /\ storage' = saved.storage
            /\ UNCHANGED error

\* pending without its i-th call
Without(i) ==
    [j \in 1..(Len(pending) - 1) |-> IF j < i THEN pending[j] ELSE pending[j + 1]]

\* The fetch of the i-th suspended call settles with resp: the call ends in
\* catch/finally, or goes on to `await res.json()`.
Resume(i, resp) ==
    /\ i \in DOMAIN pending
    /\ pending[i].stage = "fetch"
    /\ IF Thrown(resp).threw
       THEN /\ pending' = Without(i)
            /\ nSettled' = nSettled + 1
            /\ OnFailure(Thrown(resp))
       ELSE /\ pending' = [pending EXCEPT ![i].stage = "json"]
            /\ UNCHANGED <<nSettled, result, loading, error, history, storage>>
    /\ UNCHANGED <<mounted, username, nChecks, nFetch, streak>>

\* res.json() of the i-th suspended call settles with body: the call runs to
\* its end.
ResumeBody(i, body) ==
    /\ i \in DOMAIN pending
    /\ pending[i].stage = "json"
    /\ pending' = Without(i)
    /\ nSettled' = nSettled + 1
    /\ IF BodyThrown(body).threw
       THEN OnFailure(BodyThrown(body))
       ELSE OnSuccess(NewEntry(pending[i].name, body))
    /\ UNCHANGED <<mounted, username, nChecks, nFetch, streak>>

\* onChange of the input: setUsername(value); setResult(null); setError(null)
onChange(value) ==
    /\ mounted
    /\ value # username
    /\ username' = value
    /\ result' = Null
    /\ error' = Null
    /\ UNCHANGED <<mounted, loading, history, storage, pending,
                   nChecks, nFetch, nSettled, streak>>

----------------------------------------------------------------------------
(* Inputs of the model *)

DigitSeq == <<"1","2","3","4","5","6","7","8","9">>

\* "user1", "user2", ...
User(k) == <<"u","s","e","r">> \o <<DigitSeq[k]>>

Stored(k, avail) == [username |-> User(k), available |-> avail, checkedAt |-> 0]

\* A persisted history at its capacity, as earlier runs leave it.
FullList == <<Stored(1, TRUE), Stored(2, FALSE), Stored(3, TRUE),
              Stored(4, FALSE), Stored(5, TRUE)>>

InitStorages == { Null, Some(JSONstringify(JsArray(FullList))) }

\* Texts that are not a JSON-encoded list: unparseable text, a JSON object, a
\* JSON number.  (JSON null, JSON strings and arrays of values other than
\* CheckResult objects make the render or the filter callback throw; they
\* are not among the model's values.)
CorruptStorages ==
    { Some(Garbage), Some(JSONstringify(JsObject)), Some(JSONstringify(JsNumber)) }

\* What the user types.
Typed ==
    { <<>>,
      <<"U","s","e","r","1">>,
      <<" ","u","s","e","r","6"," ">>,
      <<"u","s","@","r","1">> }

\* Arguments for checkUsername beyond what the input element lets through.
Probes ==
    Typed \cup
    { <<"u","s","e">>, Rep("a", MaxNameLen), Rep("a", MaxNameLen + 1),
      <<" ">> \o Rep("a", MaxNameLen), <<"\t">> \o Rep("a", MaxNameLen + 1),
      <<"a","b"," ","c","d">>, <<" "," ">>, <<"U+00A0">>,
      <<"U+00A0","u","s","e","r","1">>, <<"u","s","e","r","1","\r">>,
      <<"\n","u","s","e","r","1","\n">>, <<"\f","u","s","e">> }

----------------------------------------------------------------------------
(* Specifications *)

InitWith(text, st) ==
    /\ mounted = FALSE
    /\ username = text
    /\ result = Null
    /\ loading = FALSE
    /\ error = Null
    /\ history = JsArray(<<>>)
    /\ storage = st
    /\ pending = <<>>
    /\ nChecks = 0
    /\ nFetch = 0
    /\ nSettled = 0
    /\ streak = <<>>

Init == \E st \in InitStorages : InitWith(<<>>, st)

Next ==
    \/ Mount
    \/ \E v \in { t \in Typed : Len(t) <= InputMaxLength } : onChange(v)
    \/ ClickCheck
    \/ handleKeyDown
    \/ \E i \in 1..MAX_HISTORY : handleHistoryClick(i)
    \/ clearHistory
    \/ \E i \in 1..MaxChecks, r \in Responses : Resume(i, r)
    \/ \E i \in 1..MaxChecks, b \in Bodies : ResumeBody(i, b)

Spec == Init /\ [][Next]_vars

\* checkUsername reached with any text in the input.
InitProbe == \E text \in Probes : InitWith(text, Null)

SpecProbe == InitProbe /\ [][Next]_vars

\* The same component over a persisted value that is not a list.
InitCorrupt == \E st \in CorruptStorages \cup {Null} : InitWith(<<>>, st)

SpecCorrupt == InitCorrupt /\ [][Next]_vars

----------------------------------------------------------------------------
(* The history store on its own: append, load and clear over any list *)

\* The entries appended: six usernames, one of them in two spellings.
StoreEntries ==
    { [username |-> User(1), available |-> TRUE, checkedAt |-> 1],
      [username |-> User(1), available |-> FALSE, checkedAt |-> 1],
      [username |-> <<"U","S","E","R","1">>, available |-> TRUE, checkedAt |-> 1],
      [username |-> User(2), available |-> TRUE, checkedAt |-> 1],
      [username |-> User(3), available |-> FALSE, checkedAt |-> 1],
      [username |-> User(4), available |-> TRUE, checkedAt |-> 1],
      [username |-> User(5), available |-> FALSE, checkedAt |-> 1],
      [username |-> <<"u","s","e","r","k">>, available |-> TRUE, checkedAt |-> 1] }

\* A list another writer left: usernames with letters outside ASCII ("user"
\* and KELVIN SIGN, a capital E ACUTE, Greek capitals ending in SIGMA).
ForeignList ==
    << [username |-> <<"u","s","e","r","U+212A">>, available |-> FALSE, checkedAt |-> 0],
       [username |-> <<"U+00C9","c","o","l","e">>, available |-> TRUE, checkedAt |-> 0],
       Stored(2, TRUE),
       [username |-> <<"U+039F","U+0394","U+039F","U+03A3">>,
        available |-> TRUE, checkedAt |-> 0] >>

StoreInits ==
    { Null,
      Some(JSONstringify(JsArray(ForeignList))),
      Some(Garbage),
      Some(JSONstringify(JsArray(<<>>))),
      Some(JSONstringify(JsArray(<<Stored(3, TRUE), Stored(1, FALSE)>>))),
      Some(JSONstringify(JsArray(FullList))) }

\* The usernames appended in a row that differ pairwise as saveToHistory
\* compares them, the last six of them.
Streak(old, name) ==
    IF \E i \in DOMAIN old : SameName(old[i], name) THEN <<name>>
    ELSE IF Len(old) > MAX_HISTORY THEN Append(Tail(old), name)
    ELSE Append(old, name)

\* setHistory(saveToHistory(entry))
StoreAppend(entry) ==
    LET saved == saveToHistory(storage, entry) IN
    /\ ~saved.threw
    /\ storage' = saved.storage
    /\ history' = saved.value
    /\ streak' = Streak(streak, entry.username)
    /\ UNCHANGED <<mounted, username, result, loading, error, pending,
                   nChecks, nFetch, nSettled>>

\* setHistory(loadHistory())
StoreLoad ==
    /\ history' = loadHistory(storage)
    /\ UNCHANGED <<mounted, username, result, loading, error, storage, pending,
                   nChecks, nFetch, nSettled, streak>>

\* localStorage.removeItem(HISTORY_KEY); setHistory([])
StoreClear ==
    /\ storage' = Null
    /\ history' = JsArray(<<>>)
    /\ streak' = <<>>
    /\ UNCHANGED <<mounted, username, result, loading, error, pending,
                   nChecks, nFetch, nSettled>>

InitStore == \E st \in StoreInits : InitWith(<<>>, st)

NextStore ==
    \/ \E e \in StoreEntries : StoreAppend(e)
    \/ StoreLoad
    \/ StoreClear

SpecStore == InitStore /\ [][NextStore]_vars

----------------------------------------------------------------------------
(* Vocabulary of the properties *)

\* The list load() returns from the persisted value.
Persisted == loadHistory(storage)

\* A text of ASCII characters alone.
IsAscii(s) == \A i \in DOMAIN s : Len(s[i]) = 1

\* The same character, or the same letter of A-Z in its two cases.
SameLetter(a, b) ==
    \/ a = b
    \/ \E k \in DOMAIN UpperLetters : {a, b} = {UpperLetters[k], LowerLetters[k]}

\* Equal under case-insensitive comparison.  For two ASCII texts this is stated
\* letter by letter, with no use of toLowerCase; a text with a character
\* outside ASCII is compared by its lower-case form.
EqualIgnoringCase(a, b) ==
    IF IsAscii(a) /\ IsAscii(b)
    THEN Len(a) = Len(b) /\ \A i \in DOMAIN a : SameLetter(a[i], b[i])
    ELSE toLowerCase(a) = toLowerCase(b)

NoDuplicates(list) ==
    \A i, j \in DOMAIN list :
        i # j => ~EqualIgnoringCase(list[i].username, list[j].username)

Holds(list, name) ==
    \E i \in DOMAIN list : EqualIgnoringCase(list[i].username, name)

\* A step in which checkUsername is invoked; its input is username'.
CheckStep == nChecks' = nChecks + 1

\* A step in which a suspended checkUsername call runs to its end.
SettleStep == nSettled' = nSettled + 1

\* A settle step that created a CheckResult: the entry stamped with this step's time.
AppendStep ==
    /\ SettleStep
    /\ result' # Null
    /\ result'[1].checkedAt = nSettled'

\* Outside the lexical rule: too short, too long, or a character outside the class.
OutsideRule(s) ==
    \/ Len(s) < 4
    \/ Len(s) > 25
    \/ \E i \in DOMAIN s : s[i] \notin WordChars

ExactlyOneShown == (ErrorShown /\ ~ResultShown) \/ (~ErrorShown /\ ResultShown)

Min(a, b) == IF a < b THEN a ELSE b

----------------------------------------------------------------------------
(* C1 *)

\* C1: from an absent persisted history or one of at most 5 entries, after any
\* checks (successful or failed) and clears, neither the persisted list nor the
\* displayed list holds more than 5 entries.
C1_HistoryBounded ==
    /\ IsArray(Persisted) /\ Len(Persisted.items) <= 5
    /\ IsArray(history) /\ Len(history.items) <= 5

\* A successful check of a new username on a full history: the oldest entry is gone.
C1_EvictedAtCapacity ==
    /\ nSettled >= 1
    /\ Len(history.items) = 5
    /\ history.items[1].checkedAt >= 1
    /\ ~Holds(history.items, User(5))
    /\ Len(Persisted.items) = 5

----------------------------------------------------------------------------
(* C2 *)

\* C2: no two entries of the persisted or displayed history have the same
\* username up to case; an append whose username matches an entry up to case
\* puts the new entry first, leaves no other entry of that name, and does not
\* make the list longer.
C2_NoDuplicates ==
    /\ [](NoDuplicates(Persisted.items) /\ NoDuplicates(history.items))
    /\ [][ (AppendStep /\ Holds(Persisted.items, result'[1].username))
            => /\ Len(loadHistory(storage').items) = Len(Persisted.items)
               /\ loadHistory(storage').items[1] = result'[1]
               /\ history'.items[1] = result'[1]
               /\ \A j \in 2..Len(history'.items) :
                      ~EqualIgnoringCase(history'.items[j].username,
                                         result'[1].username) ]_vars

\* "User1" was checked while the full history held "user1": replaced, still 5.
C2_ReplacedOtherSpelling ==
    /\ Len(history.items) = 5
    /\ history.items[1].username = <<"U","s","e","r","1">>
    /\ history.items[1].checkedAt >= 1
    /\ Holds(history.items, User(5))

----------------------------------------------------------------------------
(* C3 *)

\* The entries of list whose username differs from name up to case, by index.
Others(list, name) ==
    { j \in DOMAIN list : ~EqualIgnoringCase(list[j].username, name) }

\* out is e, then the entries of list not named like e in their order, cut at 5:
\* the kept entry of rank r (r others before it) sits at position r + 2.
AppendLaw(list, e, out) ==
    LET keep    == Others(list, e.username)
        rank(j) == Cardinality({ k \in keep : k < j })
    IN  /\ Len(out) = Min(5, 1 + Cardinality(keep))
        /\ out[1] = e
        /\ \A j \in keep : rank(j) + 2 <= 5 => out[rank(j) + 2] = list[j]

\* What append(e) leaves of ForeignList, entry by entry, for three usernames:
\* "userk" replaces "user" + KELVIN SIGN; Greek small letters ending in FINAL
\* SIGMA replace the capitals ending in SIGMA; the same letters ending in
\* medial SMALL SIGMA replace nothing, and the fifth entry falls off.
ForeignCases ==
    LET st    == Some(JSONstringify(JsArray(ForeignList)))
        e1    == [username |-> <<"u","s","e","r","k">>,
                  available |-> TRUE, checkedAt |-> 1]
        e2    == [username |-> <<"U+03BF","U+03B4","U+03BF","U+03C2">>,
                  available |-> FALSE, checkedAt |-> 1]
        e3    == [username |-> <<"U+03BF","U+03B4","U+03BF","U+03C3">>,
                  available |-> FALSE, checkedAt |-> 1]
        five  == <<Stored(5, TRUE)>> \o ForeignList
    IN  /\ saveToHistory(st, e1).value.items
               = <<e1, ForeignList[2], ForeignList[3], ForeignList[4]>>
        /\ saveToHistory(st, e2).value.items
               = <<e2, ForeignList[1], ForeignList[2], ForeignList[3]>>
        /\ saveToHistory(st, e3).value.items = <<e3>> \o ForeignList
        /\ saveToHistory(Some(JSONstringify(JsArray(five))), e3).value.items
               = <<e3, Stored(5, TRUE), ForeignList[1], ForeignList[2],
                   ForeignList[3]>>

\* C3: for every list L and entry e, append(e) returns e followed by the
\* entries of L not named like e (up to case) in their order, cut at 5, and
\* persists the text of that same list, so that load() then returns a list
\* headed by e; of six different usernames appended in a row the first is the
\* one evicted, the other five remaining most recent first.
C3_AppendLaw ==
    /\ IsArray(Persisted)
    /\ \A e \in StoreEntries :
          LET r == saveToHistory(storage, e) IN
          /\ ~r.threw
          /\ r.storage = Some(JSONstringify(r.value))
          /\ AppendLaw(Persisted.items, e, loadHistory(r.storage).items)
          /\ loadHistory(r.storage).items[1] = e
          /\ r.value.items = loadHistory(r.storage).items
    /\ Len(Persisted.items) >= Min(5, Len(streak))
    /\ \A i \in 1..Min(5, Len(streak)) :
          Persisted.items[i].username = streak[Len(streak) + 1 - i]
    /\ Len(streak) = 6 => ~Holds(Persisted.items, streak[1])
    /\ ForeignCases
    /\ streak # <<>> => history = Persisted

\* Six different usernames were appended in a row.
C3_SixInARow ==
    /\ Len(streak) = 6
    /\ Len(Persisted.items) = 5

----------------------------------------------------------------------------
(* C4 *)

\* C4 as stated: a check whose input is outside the rule (shorter than 4, longer
\* than 25, or with a character outside [A-Za-z0-9_]) is rejected by the
\* validator and issues no request.
C4_RawInvalidNoFetch ==
    [][ (CheckStep /\ OutsideRule(username'))
         => (~isValidUsername(username') /\ nFetch' = nFetch) ]_vars

\* C4: a check whose input, with leading and trailing whitespace removed, is
\* outside the rule is rejected by the validator and issues no request.
C4_TrimmedInvalidNoFetch ==
    [][ (CheckStep /\ OutsideRule(Trim(username')))
         => /\ ~isValidUsername(Trim(username'))
            /\ nFetch' = nFetch
            /\ pending' = pending
            /\ loading' = loading ]_vars

\* A 26-character input was checked and rejected without a request.
C4_TooLongRejected ==
    /\ nChecks >= 1
    /\ nFetch = 0
    /\ Len(Trim(username)) > 25
    /\ error = Some(ValidationMsg)

----------------------------------------------------------------------------
(* C5 *)

\* C5: at most one lookup request is unsettled at any time.
C5_OneInFlight ==
    Cardinality({ i \in DOMAIN pending : pending[i].stage = "fetch" }) <= 1

----------------------------------------------------------------------------
(* C6 *)

\* C6: whenever checkUsername returns or its request settles, exactly
\* one of error and result is shown; and an invocation of checkUsername leaves
\* no result and no error of an earlier check on display.
C6_ExactlyOneAfterAnyCheck ==
    [][ /\ (CheckStep /\ nFetch' = nFetch) => ExactlyOneShown'
        /\ SettleStep => ExactlyOneShown'
        /\ CheckStep => (result' = Null /\ error' \in {Null, Some(ValidationMsg)})
      ]_vars

----------------------------------------------------------------------------
(* C7 *)

\* C7: a lookup that fails with a non-success status or with no response shows
\* an error (with the status code when there is one), creates no CheckResult,
\* leaves the persisted and the displayed history as they were, issues no new
\* request, and sets loading to false.
C7_FailureLeavesHistory ==
    [][ \A i \in 1..(MaxChecks + 1), r \in Responses :
          (Resume(i, r) /\ (r.settled = "rejected" \/ r.status \notin 200..299))
            => /\ error' # Null
               /\ (r.settled = "fulfilled" /\ r.status = 500)
                     => error' = Some(<<"API error: ", "500">>)
               /\ (r.settled = "fulfilled" /\ r.status = 404)
                     => error' = Some(<<"API error: ", "404">>)
               /\ result' = result
               /\ history' = history
               /\ storage' = storage
               /\ nFetch' = nFetch
               /\ loading' = FALSE ]_vars

\* A lookup failed with status 500 while the history held entries.
C7_FailedWithStatus ==
    /\ nSettled >= 1
    /\ error = Some(<<"API error: ", "500">>)
    /\ ~loading
    /\ Len(history.items) = 5
    /\ result = Null

----------------------------------------------------------------------------
(* C8 *)

\* The persisted value is a JSON-encoded list.
WellFormedList(st) == st # Null /\ st[1].syntax = "json" /\ IsArray(st[1].doc)

\* C8: while the persisted value is absent or is not a JSON-encoded list, the
\* history that load() gave the component is the empty list, and no check ends
\* with the persistence failure on display.
C8_CorruptLoadsEmpty ==
    /\ (mounted /\ ~WellFormedList(storage)) => history = JsArray(<<>>)
    /\ error # Some(FilterMsg)

----------------------------------------------------------------------------
(* C9 *)

\* C9: a check whose trimmed input is a valid identifier issues exactly one
\* request, whatever the history holds, and no step other than a check issues
\* a request (a failed lookup is not retried).
C9_OneRequestPerCheck ==
    [][ /\ (CheckStep /\ ~OutsideRule(Trim(username')))
            => /\ nFetch' = nFetch + 1
               /\ pending' = Append(pending,
                                     [name |-> Trim(username'), stage |-> "fetch"])
        /\ ~CheckStep => nFetch' = nFetch
        /\ SettleStep => Len(pending') = Len(pending) - 1
        /\ nFetch = nSettled + Len(pending) ]_vars

\* A lookup is pending for a username the history already holds.
C9_RecheckOfKnownName ==
    /\ pending # <<>>
    /\ Holds(history.items, pending[1].name)
    /\ nFetch >= 1

----------------------------------------------------------------------------
(* C10 *)

\* C10: once mounted, the displayed history is the list load() returns from
\* the persisted value.
C10_DisplayedIsPersisted == mounted => history = Persisted

\* The history was cleared after a successful check, with a lookup still pending.
C10_ClearedWhilePending ==
    /\ mounted
    /\ storage = Null
    /\ history = JsArray(<<>>)
    /\ result # Null
    /\ pending # <<>>

====
